---- MODULE Spec2Model ----
(***************************************************************************)
(* AudioCueService (src/vs/platform/audioCues/browser/audioCueService.ts): *)
(* the enablement derivation of an audio cue, the identity-keyed cache of  *)
(* derivations, and the playback controller with its registry of playing   *)
(* sounds, as a state machine over the JavaScript event loop: a handler    *)
(* runs to its next await in one step, tasks (timers, media events) run    *)
(* only when no promise continuation is pending.                           *)
(***************************************************************************)
EXTENDS Integers, Sequences, FiniteSets, TLC

(***************************************************************************)
(* Bounds of the model.                                                    *)
(***************************************************************************)
\* playSound invocations in a behaviour of the playback controller alone
MaxCalls == 3
\* playSound invocations in a behaviour that is checked for termination
MaxFairCalls == 2
\* playSound invocations in a behaviour of the facade (by a caller, by
\* playAudioCue, by a batch)
MaxFacadeCalls == 2
\* playAudioCue / playAudioCues invocations in a behaviour of the facade
MaxOps == 1
\* length of the cue list handed to playAudioCues
MaxBatchLen == 2
\* playSound invocations in a behaviour in which the configured volume changes
MaxVolumeCalls == 2

(***************************************************************************)
(* The catalog: a part of the static tables Sound and AudioCue. Two cues   *)
(* share the sound break.mp3.                                              *)
(***************************************************************************)
Sounds == {"break.mp3", "taskCompleted.mp3"}

Cues == {"break", "onDebugBreak", "taskCompleted"}

CueSound(cue) ==
    CASE cue = "break" -> "break.mp3"
      [] cue = "onDebugBreak" -> "break.mp3"
      [] cue = "taskCompleted" -> "taskCompleted.mp3"

SettingsKey(cue) ==
    CASE cue = "break" -> "audioCues.lineHasBreakpoint"
      [] cue = "onDebugBreak" -> "audioCues.onDebugBreak"
      [] cue = "taskCompleted" -> "audioCues.taskCompleted"

\* the key of the obsolete, process-wide setting
ObsoleteKey == "audioCues.enabled"

SettingKeys == {SettingsKey(c) : c \in Cues} \cup {ObsoleteKey}

SettingValues == {"on", "off", "auto"}

\* the name under which a derivation depends on screenReaderAttached
ScreenReaderInput == "screenReaderOptimized"

NoRead == [cue |-> "none", value |-> FALSE]

\* what getValue('audioCues.volume') can return from a settings file: nothing,
\* a number, or a value of another JSON type; typeof tells them apart
MissingVolume == [type |-> "undefined", value |-> 0]

VolumeNumbers == {-5, -1, 0, 1, 50, 99, 100, 101, 150}

VolumeInputs ==
    {MissingVolume, [type |-> "string", value |-> 0], [type |-> "boolean", value |-> 1]}
        \cup {[type |-> "number", value |-> n] : n \in VolumeNumbers}

\* the volume of a call that created no Audio
NoVolume == [num |-> 0, den |-> 0]

VARIABLES
    config,                 \* configurationService: setting key -> on | off | auto
    configVolume,           \* configurationService: the value of audioCues.volume
    screenReaderOptimized,  \* accessibilityService.isScreenReaderOptimized()
    cacheMap,               \* Cache.map of isEnabledCache: cue -> derivation id, 0 = no entry
    derivations,            \* the derived observables the factory has created, by id
    lastRead,               \* what isEnabled(cue).get() last returned to a caller, NoRead after a change
    playingSounds,          \* AudioCueService.playingSounds
    calls,                  \* the playSound invocations, by index
    ops                     \* the playAudioCue / playAudioCues invocations, by index

enablementVars == <<config, configVolume, screenReaderOptimized, cacheMap,
                    derivations, lastRead>>
playbackVars == <<playingSounds, calls, ops>>
vars == <<config, configVolume, screenReaderOptimized, cacheMap, derivations,
          lastRead, playingSounds, calls, ops>>

(***************************************************************************)
(* Enablement: the computation of the derived observable.                  *)
(***************************************************************************)
\* a plausible slip: the obsolete tier forgets the screen reader
ComputeEnabled_ObsoleteIgnoresAuto(setting, obsoleteSetting, screenReader) ==
    IF setting = "on" \/ (setting = "auto" /\ screenReader)
    THEN TRUE
    ELSE obsoleteSetting = "on"

\* the function handed to derived(): true from the cue's own setting, else
\* from the obsolete setting, else false
ComputeEnabled(setting, obsoleteSetting, screenReader) ==
    IF setting = "on" \/ (setting = "auto" /\ screenReader)
    THEN TRUE
    ELSE IF obsoleteSetting = "on" \/ (obsoleteSetting = "auto" /\ screenReader)
         THEN TRUE
         ELSE FALSE

\* a slip: the screen reader state is taken with get(), not read(reader)
ComputeReads_UntrackedScreenReader(cue, setting, obsoleteSetting, screenReader) ==
    LET own == setting = "on" \/ (setting = "auto" /\ screenReader)
    IN  {SettingsKey(cue)}
        \cup (IF own THEN {} ELSE {ObsoleteKey})

\* a slip: the setting observable listens to every configuration change
ComputeReads_NoFilter(cue, setting, obsoleteSetting, screenReader) ==
    LET own == setting = "on" \/ (setting = "auto" /\ screenReader)
    IN  {SettingsKey(c) : c \in Cues}
        \cup (IF setting = "auto" THEN {ScreenReaderInput} ELSE {})
        \cup (IF own THEN {} ELSE {ObsoleteKey})
        \cup (IF ~own /\ obsoleteSetting = "auto" THEN {ScreenReaderInput} ELSE {})

\* the observables one evaluation reads with read(reader): || and && short-circuit
ComputeReads(cue, setting, obsoleteSetting, screenReader) ==
    LET own == setting = "on" \/ (setting = "auto" /\ screenReader)
    IN  {SettingsKey(cue)}
        \cup (IF setting = "auto" THEN {ScreenReaderInput} ELSE {})
        \cup (IF own THEN {} ELSE {ObsoleteKey})
        \cup (IF ~own /\ obsoleteSetting = "auto" THEN {ScreenReaderInput} ELSE {})

\* a derivation as the factory returns it: nothing computed yet
NewDerivation(cue) ==
    [cue |-> cue, dirty |-> TRUE, value |-> FALSE, deps |-> {}]

\* a slip: a cache that calls the factory on every get
CacheGet_NoLookup(map, ders, cue) ==
    [map |-> [map EXCEPT ![cue] = Len(ders) + 1],
     ders |-> Append(ders, NewDerivation(cue)),
     id |-> Len(ders) + 1]

\* Cache.get: the stored derivation, or the factory's, stored
CacheGet(map, ders, cue) ==
    IF map[cue] # 0
    THEN [map |-> map, ders |-> ders, id |-> map[cue]]
    ELSE [map |-> [map EXCEPT ![cue] = Len(ders) + 1],
          ders |-> Append(ders, NewDerivation(cue)),
          id |-> Len(ders) + 1]

\* get() of a derivation: recomputed from the current inputs when an input it
\* read has changed since its last evaluation, the memoized value otherwise
DerivedGet(ders, id) ==
    LET d == ders[id]
        setting == config[SettingsKey(d.cue)]
        obsolete == config[ObsoleteKey]
    IN  IF d.dirty
        THEN LET v == ComputeEnabled(setting, obsolete, screenReaderOptimized)
             IN  [ders |-> [ders EXCEPT ![id] =
                        [cue |-> d.cue, dirty |-> FALSE, value |-> v,
                         deps |-> ComputeReads(d.cue, setting, obsolete,
                                               screenReaderOptimized)]],
                  value |-> v]
        ELSE [ders |-> ders, value |-> d.value]

\* isEnabled(cue).get()
IsEnabledGet(map, ders, cue) ==
    LET got == CacheGet(map, ders, cue)
        read == DerivedGet(got.ders, got.id)
    IN  [map |-> got.map, ders |-> read.ders, value |-> read.value]

\* a change notification of one input reaches the derivations that read it
Invalidate(ders, input) ==
    [i \in DOMAIN ders |->
        IF input \in ders[i].deps
        THEN [ders[i] EXCEPT !.dirty = TRUE]
        ELSE ders[i]]

(***************************************************************************)
(* Enablement: the actions.                                                *)
(***************************************************************************)
\* a caller reads isEnabled(cue).get()
ReadIsEnabled(cue) ==
    LET r == IsEnabledGet(cacheMap, derivations, cue)
    IN  /\ cacheMap' = r.map
        /\ derivations' = r.ders
        /\ lastRead' = [cue |-> cue, value |-> r.value]
        /\ UNCHANGED <<config, configVolume, screenReaderOptimized, playbackVars>>

\* the configuration service changes one setting and fires
\* onDidChangeConfiguration with affectsConfiguration(key)
ChangeConfiguration(key, value) ==
    /\ config[key] # value
    /\ config' = [config EXCEPT ![key] = value]
    /\ derivations' = Invalidate(derivations, key)
    /\ lastRead' = NoRead
    /\ UNCHANGED <<configVolume, screenReaderOptimized, cacheMap, playbackVars>>

\* the accessibility service fires onDidChangeScreenReaderOptimized
ChangeScreenReader ==
    /\ screenReaderOptimized' = ~screenReaderOptimized
    /\ derivations' = Invalidate(derivations, ScreenReaderInput)
    /\ lastRead' = NoRead
    /\ UNCHANGED <<config, configVolume, cacheMap, playbackVars>>

\* the configuration service changes audioCues.volume; no cue's setting and
\* not audioCues.enabled is affected, so no observable of the service fires
ChangeVolume(volume) ==
    /\ configVolume # volume
    /\ configVolume' = volume
    /\ UNCHANGED <<config, screenReaderOptimized, cacheMap, derivations, lastRead,
                   playbackVars>>

(***************************************************************************)
(* Playback: playSound up to its await.                                    *)
(***************************************************************************)
\* the record of a playSound invocation that returned at the de-duplication check
NoopCall(sound, allowManyInParallel, op) ==
    [sound |-> sound, allowManyInParallel |-> allowManyInParallel, op |-> op,
     started |-> FALSE, volume |-> NoVolume, audio |-> "none", race |-> "none",
     pc |-> "returned", logged |-> 0, removed |-> 0, result |-> "resolved"]

\* a slip: the configured number is taken as it is
GetVolumeInPercent_NoClamp(volume) ==
    IF volume.type # "number"
    THEN 50
    ELSE volume.value

\* getVolumeInPercent
GetVolumeInPercent(volume) ==
    IF volume.type # "number"
    THEN 50
    ELSE LET min == IF volume.value < 100 THEN volume.value ELSE 100
         IN  IF min > 0 THEN min ELSE 0

\* audio.volume = this.getVolumeInPercent() / 100, as a fraction
AudioVolume(percent) == [num |-> percent, den |-> 100]

\* the record of a playSound invocation that created its Audio, set its volume,
\* called play() and waits for raceTimeout(audio.play(), 1000)
StartedCall(sound, allowManyInParallel, op) ==
    [sound |-> sound, allowManyInParallel |-> allowManyInParallel, op |-> op,
     started |-> TRUE, volume |-> AudioVolume(GetVolumeInPercent(configVolume)),
     audio |-> "loading", race |-> "none", pc |-> "awaiting",
     logged |-> 0, removed |-> 0, result |-> "pending"]

\* a slip: the flag is ignored, every sound in the registry is a duplicate
IsDuplicate_IgnoresFlag(registry, sound, allowManyInParallel) ==
    sound \in registry

\* the de-duplication check
IsDuplicate(registry, sound, allowManyInParallel) ==
    ~allowManyInParallel /\ sound \in registry

\* a slip: the add is left to the code after the await
RegistryAdd_AfterAwait(registry, sound) ==
    registry

\* this.playingSounds.add(sound)
RegistryAdd(registry, sound) ==
    registry \cup {sound}

\* playSound from its entry to its await (or to its early return), as one step
PlaySoundSync(registry, cs, sound, allowManyInParallel, op) ==
    IF IsDuplicate(registry, sound, allowManyInParallel)
    THEN [registry |-> registry,
          calls |-> Append(cs, NoopCall(sound, allowManyInParallel, op))]
    ELSE [registry |-> RegistryAdd(registry, sound),
          calls |-> Append(cs, StartedCall(sound, allowManyInParallel, op))]

\* a slip: giving up on a playback is logged like a failure
AfterAwait_LogsTimeout(race) ==
    [logged |-> IF race \in {"rejected", "timeout"} THEN 1 ELSE 0, result |-> "resolved"]

\* a slip: no catch around the await
AfterAwait_NoCatch(race) ==
    [logged |-> 0, result |-> IF race = "rejected" THEN "rejected" ELSE "resolved"]

\* a slip: the undefined a timed-out race resolves with is taken for a failure
AfterAwait_TimeoutThrows(race) ==
    [logged |-> IF race = "rejected" THEN 1 ELSE 0,
     result |-> IF race = "timeout" THEN "rejected" ELSE "resolved"]

\* the code after the await: a rejection is caught and logged, nothing is rethrown
AfterAwait(race) ==
    [logged |-> IF race = "rejected" THEN 1 ELSE 0, result |-> "resolved"]

(***************************************************************************)
(* Playback: the batch of playAudioCues.                                   *)
(***************************************************************************)
RECURSIVE FilterEnabled(_, _, _)
\* cues.filter(cue => this.isEnabled(cue).get()), reading each cue in turn
FilterEnabled(map, ders, cues) ==
    IF cues = <<>>
    THEN [map |-> map, ders |-> ders, cues |-> <<>>]
    ELSE LET r == IsEnabledGet(map, ders, Head(cues))
             rest == FilterEnabled(r.map, r.ders, Tail(cues))
         IN  [map |-> rest.map, ders |-> rest.ders,
              cues |-> IF r.value THEN <<Head(cues)>> \o rest.cues ELSE rest.cues]

\* a slip: the sounds are mapped but not collected in a Set
DistinctSounds_NoSet(cues) ==
    [i \in 1..Len(cues) |-> CueSound(cues[i])]

RECURSIVE DistinctSounds(_)
\* Array.from(new Set(cues.map(cue => cue.sound))): first occurrences, in order
DistinctSounds(cues) ==
    IF cues = <<>>
    THEN <<>>
    ELSE LET front == DistinctSounds(SubSeq(cues, 1, Len(cues) - 1))
             s == CueSound(cues[Len(cues)])
         IN  IF \E i \in DOMAIN front : front[i] = s
             THEN front
             ELSE Append(front, s)

RECURSIVE PlaySounds(_, _, _, _)
\* sounds.map(sound => this.playSound(sound)): each call runs to its await
PlaySounds(registry, cs, sounds, op) ==
    IF sounds = <<>>
    THEN [registry |-> registry, calls |-> cs]
    ELSE LET r == PlaySoundSync(registry, cs, Head(sounds), FALSE, op)
         IN  PlaySounds(r.registry, r.calls, Tail(sounds), op)

CueLists == UNION {[1..n -> Cues] : n \in 0..MaxBatchLen}

(***************************************************************************)
(* The event loop: a continuation runs before the next task.               *)
(***************************************************************************)
\* a slip: Promise.race in the place of Promise.all
JoinReady_Race(k) ==
    \/ ops[k].calls = <<>>
    \/ \E j \in DOMAIN ops[k].calls : calls[ops[k].calls[j]].pc = "returned"

\* the calls an invocation of playAudioCue(s) waits for
JoinReady(k) ==
    \/ \A j \in DOMAIN ops[k].calls : calls[ops[k].calls[j]].pc = "returned"
    \/ \E j \in DOMAIN ops[k].calls : calls[ops[k].calls[j]].result = "rejected"

JoinResult(k) ==
    IF \E j \in DOMAIN ops[k].calls : calls[ops[k].calls[j]].result = "rejected"
    THEN "rejected"
    ELSE "resolved"

ContinuationPending ==
    \/ \E i \in DOMAIN calls : calls[i].pc = "awaiting" /\ calls[i].race # "none"
    \/ \E k \in DOMAIN ops : ops[k].pc = "awaiting" /\ JoinReady(k)

(***************************************************************************)
(* Playback: the actions.                                                  *)
(***************************************************************************)
\* a caller invokes playSound(sound, allowManyInParallel)
PlaySound(sound, allowManyInParallel) ==
    /\ LET r == PlaySoundSync(playingSounds, calls, sound, allowManyInParallel, 0)
       IN  /\ playingSounds' = r.registry
           /\ calls' = r.calls
    /\ UNCHANGED <<enablementVars, ops>>

\* a slip: playAudioCue does not hand its flag on to playSound
PlayAudioCue_DropsFlag(cue, allowManyInParallel) ==
    /\ LET e == IsEnabledGet(cacheMap, derivations, cue)
           k == Len(ops) + 1
           r == PlaySoundSync(playingSounds, calls, CueSound(cue), FALSE, k)
       IN  /\ cacheMap' = e.map
           /\ derivations' = e.ders
           /\ IF e.value
              THEN /\ playingSounds' = r.registry
                   /\ calls' = r.calls
                   /\ ops' = Append(ops,
                        [kind |-> "playAudioCue", calls |-> <<Len(r.calls)>>,
                         pc |-> "awaiting", result |-> "pending"])
              ELSE /\ UNCHANGED <<playingSounds, calls>>
                   /\ ops' = Append(ops,
                        [kind |-> "playAudioCue", calls |-> <<>>,
                         pc |-> "returned", result |-> "resolved"])
    /\ UNCHANGED <<config, configVolume, screenReaderOptimized, lastRead>>

\* a caller invokes playAudioCue(cue, allowManyInParallel)
PlayAudioCue(cue, allowManyInParallel) ==
    /\ LET e == IsEnabledGet(cacheMap, derivations, cue)
           k == Len(ops) + 1
           r == PlaySoundSync(playingSounds, calls, CueSound(cue),
                              allowManyInParallel, k)
       IN  /\ cacheMap' = e.map
           /\ derivations' = e.ders
           /\ IF e.value
              THEN /\ playingSounds' = r.registry
                   /\ calls' = r.calls
                   /\ ops' = Append(ops,
                        [kind |-> "playAudioCue", calls |-> <<Len(r.calls)>>,
                         pc |-> "awaiting", result |-> "pending"])
              ELSE /\ UNCHANGED <<playingSounds, calls>>
                   /\ ops' = Append(ops,
                        [kind |-> "playAudioCue", calls |-> <<>>,
                         pc |-> "returned", result |-> "resolved"])
    /\ UNCHANGED <<config, configVolume, screenReaderOptimized, lastRead>>

\* a caller invokes playAudioCues(cues)
PlayAudioCues(cues) ==
    /\ LET e == FilterEnabled(cacheMap, derivations, cues)
           sounds == DistinctSounds(e.cues)
           k == Len(ops) + 1
           r == PlaySounds(playingSounds, calls, sounds, k)
       IN  /\ cacheMap' = e.map
           /\ derivations' = e.ders
           /\ playingSounds' = r.registry
           /\ calls' = r.calls
           /\ ops' = Append(ops,
                [kind |-> "playAudioCues",
                 calls |-> [j \in 1..Len(sounds) |-> Len(calls) + j],
                 pc |-> "awaiting", result |-> "pending"])
    /\ UNCHANGED <<config, configVolume, screenReaderOptimized, lastRead>>

\* the media element starts playing: audio.play() resolves
PlayResolves(i) ==
    /\ i \in DOMAIN calls
    /\ ~ContinuationPending
    /\ calls[i].audio = "loading"
    /\ calls' = [calls EXCEPT ![i].audio = "playing",
                              ![i].race = IF @ = "none" THEN "resolved" ELSE @]
    /\ UNCHANGED <<enablementVars, playingSounds, ops>>

\* the media element cannot load, decode or play: audio.play() rejects
PlayRejects(i) ==
    /\ i \in DOMAIN calls
    /\ ~ContinuationPending
    /\ calls[i].audio = "loading"
    /\ calls' = [calls EXCEPT ![i].audio = "failed",
                              ![i].race = IF @ = "none" THEN "rejected" ELSE @]
    /\ UNCHANGED <<enablementVars, playingSounds, ops>>

\* the timer of raceTimeout fires before audio.play() has settled
TimeoutFires(i) ==
    /\ i \in DOMAIN calls
    /\ ~ContinuationPending
    /\ calls[i].pc = "awaiting"
    /\ calls[i].race = "none"
    /\ calls' = [calls EXCEPT ![i].race = "timeout"]
    /\ UNCHANGED <<enablementVars, playingSounds, ops>>

\* a slip: the catch empties the registry
ResumePlaySound_ClearsRegistry(i) ==
    /\ i \in DOMAIN calls
    /\ calls[i].pc = "awaiting"
    /\ calls[i].race # "none"
    /\ LET a == AfterAwait(calls[i].race)
       IN  calls' = [calls EXCEPT ![i].pc = "returned",
                                  ![i].logged = @ + a.logged,
                                  ![i].removed = @ + 1,
                                  ![i].result = a.result]
    /\ playingSounds' = IF calls[i].race = "rejected" THEN {} ELSE playingSounds
    /\ UNCHANGED <<enablementVars, ops>>

\* a slip: audio.remove() follows the await inside the try, without a finally
ResumePlaySound_NoFinally(i) ==
    /\ i \in DOMAIN calls
    /\ calls[i].pc = "awaiting"
    /\ calls[i].race # "none"
    /\ LET a == AfterAwait(calls[i].race)
       IN  calls' = [calls EXCEPT ![i].pc = "returned",
                                  ![i].logged = @ + a.logged,
                                  ![i].removed =
                                      IF calls[i].race = "rejected" THEN @ ELSE @ + 1,
                                  ![i].result = a.result]
    /\ UNCHANGED <<enablementVars, playingSounds, ops>>

\* playSound continues after its await: catch, finally, return
ResumePlaySound(i) ==
    /\ i \in DOMAIN calls
    /\ calls[i].pc = "awaiting"
    /\ calls[i].race # "none"
    /\ LET a == AfterAwait(calls[i].race)
       IN  calls' = [calls EXCEPT ![i].pc = "returned",
                                  ![i].logged = @ + a.logged,
                                  ![i].removed = @ + 1,
                                  ![i].result = a.result]
    /\ UNCHANGED <<enablementVars, playingSounds, ops>>

\* a slip: the listener leaves the registry alone
AudioEnded_NoDelete(i) ==
    /\ i \in DOMAIN calls
    /\ ~ContinuationPending
    /\ calls[i].audio = "playing"
    /\ calls' = [calls EXCEPT ![i].audio = "ended"]
    /\ UNCHANGED <<enablementVars, playingSounds, ops>>

\* the listener of the media element's 'ended' event
AudioEnded(i) ==
    /\ i \in DOMAIN calls
    /\ ~ContinuationPending
    /\ calls[i].audio = "playing"
    /\ calls' = [calls EXCEPT ![i].audio = "ended"]
    /\ playingSounds' = playingSounds \ {calls[i].sound}
    /\ UNCHANGED <<enablementVars, ops>>

\* playAudioCue continues after awaiting its playSound
ResumeAudioCue(k) ==
    /\ k \in DOMAIN ops
    /\ ops[k].kind = "playAudioCue"
    /\ ops[k].pc = "awaiting"
    /\ JoinReady(k)
    /\ ops' = [ops EXCEPT ![k].pc = "returned", ![k].result = JoinResult(k)]
    /\ UNCHANGED <<enablementVars, playingSounds, calls>>

\* playAudioCues continues after awaiting Promise.all of its playSound calls
ResumeAudioCues(k) ==
    /\ k \in DOMAIN ops
    /\ ops[k].kind = "playAudioCues"
    /\ ops[k].pc = "awaiting"
    /\ JoinReady(k)
    /\ ops' = [ops EXCEPT ![k].pc = "returned", ![k].result = JoinResult(k)]
    /\ UNCHANGED <<enablementVars, playingSounds, calls>>

(***************************************************************************)
(* Initial states and specifications.                                      *)
(***************************************************************************)
Init ==
    /\ config \in [SettingKeys -> SettingValues]
    /\ configVolume \in VolumeInputs
    /\ screenReaderOptimized \in BOOLEAN
    /\ cacheMap = [c \in Cues |-> 0]
    /\ derivations = <<>>
    /\ lastRead = NoRead
    /\ playingSounds = {}
    /\ calls = <<>>
    /\ ops = <<>>

NextEnablement ==
    \/ \E cue \in Cues : ReadIsEnabled(cue)
    \/ \E key \in SettingKeys, value \in SettingValues : ChangeConfiguration(key, value)
    \/ ChangeScreenReader

\* the enablement of a cue reads no volume: one volume stands for all
InitEnablement ==
    /\ Init
    /\ configVolume = MissingVolume

\* the enablement layer alone: settings and the screen reader change, callers read
SpecEnablement == InitEnablement /\ [][NextEnablement]_vars

NextPlaySound ==
    \/ \E sound \in Sounds, allow \in BOOLEAN :
          Len(calls) < MaxCalls /\ PlaySound(sound, allow)
    \/ \E i \in DOMAIN calls : PlayResolves(i)
    \/ \E i \in DOMAIN calls : PlayRejects(i)
    \/ \E i \in DOMAIN calls : TimeoutFires(i)
    \/ \E i \in DOMAIN calls : ResumePlaySound(i)
    \/ \E i \in DOMAIN calls : AudioEnded(i)

\* playSound reads no setting of a cue: one assignment of the settings stands for all
InitPlaySound ==
    /\ Init
    /\ config = [key \in SettingKeys |-> "off"]
    /\ configVolume = MissingVolume
    /\ ~screenReaderOptimized

\* the playback controller alone: callers invoke playSound, the media elements
\* and the timers answer
SpecPlaySound == InitPlaySound /\ [][NextPlaySound]_vars

NextFewCalls ==
    \/ \E sound \in Sounds, allow \in BOOLEAN :
          Len(calls) < MaxFairCalls /\ PlaySound(sound, allow)
    \/ \E i \in DOMAIN calls : PlayResolves(i)
    \/ \E i \in DOMAIN calls : PlayRejects(i)
    \/ \E i \in DOMAIN calls : TimeoutFires(i)
    \/ \E i \in DOMAIN calls : ResumePlaySound(i)
    \/ \E i \in DOMAIN calls : AudioEnded(i)

\* the playback controller under the scheduling of the event loop: it runs a
\* pending continuation, and a started timer fires unless audio.play() settles
\* first; whether and when a media element answers is left open
FairPlaySound ==
    /\ InitPlaySound
    /\ [][NextFewCalls]_vars
    /\ \A i \in 1..MaxFairCalls : WF_vars(TimeoutFires(i))
    /\ \A i \in 1..MaxFairCalls : WF_vars(ResumePlaySound(i))

NextFacade ==
    \/ \E sound \in Sounds, allow \in BOOLEAN :
          Len(calls) < MaxFacadeCalls /\ PlaySound(sound, allow)
    \/ \E cue \in Cues, allow \in BOOLEAN :
          /\ Len(ops) < MaxOps
          /\ Len(calls) < MaxFacadeCalls
          /\ PlayAudioCue(cue, allow)
    \/ \E cues \in CueLists :
          /\ Len(ops) < MaxOps
          /\ PlayAudioCues(cues)
          /\ Len(calls') <= MaxFacadeCalls
    \/ \E i \in DOMAIN calls : PlayResolves(i)
    \/ \E i \in DOMAIN calls : PlayRejects(i)
    \/ \E i \in DOMAIN calls : TimeoutFires(i)
    \/ \E i \in DOMAIN calls : ResumePlaySound(i)
    \/ \E i \in DOMAIN calls : AudioEnded(i)
    \/ \E k \in DOMAIN ops : ResumeAudioCue(k)
    \/ \E k \in DOMAIN ops : ResumeAudioCues(k)

\* the settings a behaviour of the facade starts from: each cue is switched on
\* or off by its own setting, and the settings stay as they are
InitFacade ==
    /\ Init
    /\ config \in [SettingKeys -> {"on", "off"}]
    /\ config[ObsoleteKey] = "off"
    /\ configVolume = MissingVolume
    /\ ~screenReaderOptimized

\* playAudioCue and playAudioCues beside playSound
SpecFacade == InitFacade /\ [][NextFacade]_vars

NextBatch ==
    \/ \E cues \in CueLists :
          /\ Len(ops) < MaxOps
          /\ PlayAudioCues(cues)
          /\ Len(calls') <= MaxFacadeCalls
    \/ \E i \in DOMAIN calls : PlayResolves(i)
    \/ \E i \in DOMAIN calls : PlayRejects(i)
    \/ \E i \in DOMAIN calls : TimeoutFires(i)
    \/ \E i \in DOMAIN calls : ResumePlaySound(i)
    \/ \E i \in DOMAIN calls : AudioEnded(i)
    \/ \E k \in DOMAIN ops : ResumeAudioCues(k)

\* playAudioCues under the scheduling of the event loop: a pending continuation
\* runs, a started timer fires unless audio.play() settles first; whether and
\* when a media element answers is left open
FairBatch ==
    /\ InitFacade
    /\ [][NextBatch]_vars
    /\ \A i \in 1..MaxFacadeCalls : WF_vars(TimeoutFires(i))
    /\ \A i \in 1..MaxFacadeCalls : WF_vars(ResumePlaySound(i))
    /\ \A k \in 1..MaxOps : WF_vars(ResumeAudioCues(k))

NextVolume ==
    \/ \E volume \in VolumeInputs : ChangeVolume(volume)
    \/ \E sound \in Sounds, allow \in BOOLEAN :
          Len(calls) < MaxVolumeCalls /\ PlaySound(sound, allow)

InitVolume ==
    /\ Init
    /\ config = [key \in SettingKeys |-> "off"]
    /\ ~screenReaderOptimized

\* playSound while the configured volume changes
SpecVolume == InitVolume /\ [][NextVolume]_vars

\* the whole service: the facade with its settings changing and being read
Next ==
    \/ NextEnablement
    \/ \E volume \in VolumeInputs : ChangeVolume(volume)
    \/ NextFacade

Spec == Init /\ [][Next]_vars

(***************************************************************************)
(* What the claims speak of.                                               *)
(***************************************************************************)
\* the playback of call i has been started and has neither ended nor failed
InFlight(i) == calls[i].audio \in {"loading", "playing"}

\* the playback of call i counts for the registry: started, not finished, and
\* not failed with its call already through its cleanup
Live(i) ==
    /\ calls[i].started
    /\ calls[i].audio # "ended"
    /\ ~(calls[i].audio = "failed" /\ calls[i].pc = "returned")

CallsOf(sound) == {i \in DOMAIN calls : calls[i].sound = sound}

\* the enablement rule as the specification words it
EnablementFormula(perCue, legacy, screenReader) ==
    \/ perCue = "on" \/ (perCue = "auto" /\ screenReader)
    \/ legacy = "on" \/ (legacy = "auto" /\ screenReader)

\* the rule on the settings as they are now
EnabledNow(cue) ==
    EnablementFormula(config[SettingsKey(cue)], config[ObsoleteKey],
                      screenReaderOptimized)

\* a call without the index of the invocation it belongs to
CallCore(c) ==
    [sound |-> c.sound, allowManyInParallel |-> c.allowManyInParallel,
     started |-> c.started, volume |-> c.volume, audio |-> c.audio,
     race |-> c.race, pc |-> c.pc,
     logged |-> c.logged, removed |-> c.removed, result |-> c.result]

(***************************************************************************)
(* C1..C10                                                                 *)
(***************************************************************************)
\* C1: while every playSound call for a sound S has come with
\* allowManyInParallel = false and no playback of S has ended, exactly one of
\* the calls, the first, has started a playback, every other one has returned
\* as a no-op, and the registry holds S. The check and the add of a call are
\* one step of the model, as they are one synchronous run of the code.
C1_OneOfManyStarts ==
    \A s \in Sounds :
        ( /\ CallsOf(s) # {}
          /\ \A i \in CallsOf(s) :
                ~calls[i].allowManyInParallel /\ calls[i].audio # "ended" )
        => /\ Cardinality({i \in CallsOf(s) : calls[i].started}) = 1
           /\ \A i \in CallsOf(s) :
                calls[i].started <=> (\A j \in CallsOf(s) : i <= j)
           /\ \A i \in CallsOf(s) :
                ~calls[i].started =>
                    /\ calls[i].pc = "returned"
                    /\ calls[i].result = "resolved"
                    /\ calls[i].audio = "none"
           /\ s \in playingSounds

\* three calls for one sound, none in parallel mode, the first one's playback
\* failed and its continuation has run, the third has returned
C1_Witness ==
    /\ Len(calls) = 3
    /\ \A i \in 1..3 : calls[i].sound = "break.mp3" /\ ~calls[i].allowManyInParallel
    /\ calls[1].audio = "failed"
    /\ calls[1].pc = "returned"
    /\ calls[3].pc = "returned"

\* C2: two playbacks of one sound are in flight together only if the later one
\* was started by a call with allowManyInParallel = true.
C2_NoSecondPlaybackUnlessAllowed ==
    \A i, j \in DOMAIN calls :
        ( /\ i < j
          /\ calls[i].sound = calls[j].sound
          /\ InFlight(i)
          /\ InFlight(j) )
        => calls[j].allowManyInParallel

\* C3: a sound is in the registry if and only if a playback of it was started
\* and has not finished, nor failed and been cleaned up.
C3_RegistryIffLive ==
    \A s \in Sounds :
        s \in playingSounds <=> \E i \in CallsOf(s) : Live(i)

\* C4: a playSound call that waits returns, also when its playback never
\* answers, and a call that returns through the timeout resolves.
C4_TimeoutReturns ==
    /\ \A i \in 1..MaxFairCalls :
          (i \in DOMAIN calls /\ calls[i].pc = "awaiting")
              ~> (i \in DOMAIN calls /\ calls[i].pc = "returned")
    /\ [](\A i \in DOMAIN calls :
            (calls[i].race = "timeout" /\ calls[i].pc = "returned")
                => calls[i].result = "resolved")

\* a call has returned through the timeout and its playback still has not answered
C4_Witness ==
    \E i \in DOMAIN calls :
        /\ calls[i].race = "timeout"
        /\ calls[i].pc = "returned"
        /\ calls[i].audio = "loading"

\* C5 as stated: a call whose audio.play() has rejected has, once it has
\* returned, logged the failure and resolved, and no promise of playSound,
\* playAudioCue or playAudioCues rejects.
C5_EveryFailureLogged ==
    /\ \A i \in DOMAIN calls :
          /\ calls[i].result # "rejected"
          /\ (calls[i].pc = "returned" /\ calls[i].audio = "failed")
                => (calls[i].logged = 1 /\ calls[i].result = "resolved")
    /\ \A k \in DOMAIN ops : ops[k].result # "rejected"

\* C5, amended: no promise of playSound, playAudioCue or playAudioCues rejects,
\* and every call that has returned has resolved; a call whose audio.play()
\* rejected before the timeout fired has logged the failure. (A rejection
\* after the timeout has won the race reaches no catch and is not logged.)
C5_FailureAbsorbed ==
    /\ \A i \in DOMAIN calls :
          /\ calls[i].result # "rejected"
          /\ calls[i].pc = "returned" => calls[i].result = "resolved"
          /\ (calls[i].pc = "returned" /\ calls[i].race = "rejected")
                => calls[i].logged = 1
    /\ \A k \in DOMAIN ops :
          /\ ops[k].result # "rejected"
          /\ ops[k].pc = "returned" => ops[k].result = "resolved"

\* a batch has returned after the playback of one of its sounds failed, and so
\* has a direct call
C5_Witness ==
    /\ \E k \in DOMAIN ops :
          /\ ops[k].kind = "playAudioCues"
          /\ ops[k].pc = "returned"
          /\ \E j \in DOMAIN ops[k].calls :
                calls[ops[k].calls[j]].race = "rejected"
    /\ \E i \in DOMAIN calls :
          /\ calls[i].op = 0
          /\ calls[i].race = "rejected"
          /\ calls[i].pc = "returned"

\* C6: what isEnabled(cue).get() returns is the enablement rule applied to
\* the cue's setting, the obsolete setting and the screen reader state, in
\* each of the 18 combinations.
C6_IsEnabledIsFormula ==
    lastRead.cue \in Cues => lastRead.value = EnabledNow(lastRead.cue)

\* the case the specification names: per cue auto, obsolete off, screen reader on
C6_Witness ==
    /\ lastRead.cue = "break"
    /\ lastRead.value
    /\ config[SettingsKey("break")] = "auto"
    /\ config[ObsoleteKey] = "off"
    /\ screenReaderOptimized

\* C7: the factory has run once for each cue that was read and for no other,
\* the cache holds that one derivation for the cue, and an entry of the cache
\* is never removed or replaced.
C7_OneDerivationPerCue ==
    /\ [](\A c \in Cues :
            /\ Cardinality({d \in DOMAIN derivations : derivations[d].cue = c})
                 = IF cacheMap[c] # 0 THEN 1 ELSE 0
            /\ cacheMap[c] # 0 =>
                 /\ cacheMap[c] \in DOMAIN derivations
                 /\ derivations[cacheMap[c]].cue = c
            /\ lastRead.cue = c => cacheMap[c] # 0)
    /\ [][\A c \in Cues : cacheMap[c] # 0 => cacheMap'[c] = cacheMap[c]]_vars

\* every cue has its derivation and the cue whose derivation was made first
\* has been read again since the last one was made
C7_Witness ==
    /\ Len(derivations) = 3
    /\ lastRead.cue = derivations[1].cue
    /\ ~derivations[3].dirty

\* C8: the playSound calls of one playAudioCues(cues) are one call for each
\* distinct sound of the enabled cues of the list, and no other.
C8_BatchPlaysEachSoundOnce ==
    [][\A cues \in CueLists :
        PlayAudioCues(cues) =>
            LET expected == {CueSound(cues[j]) :
                                j \in {n \in DOMAIN cues : EnabledNow(cues[n])}}
                issued == (Len(calls) + 1)..Len(calls')
            IN  /\ Cardinality(issued) = Cardinality(expected)
                /\ {calls'[i].sound : i \in issued} = expected
                /\ \A i \in issued : ~calls'[i].allowManyInParallel]_vars

\* a batch of the two enabled cues that share break.mp3 has issued one call
C8_Witness ==
    /\ config[SettingsKey("break")] = "on"
    /\ config[SettingsKey("onDebugBreak")] = "on"
    /\ cacheMap["break"] # 0
    /\ cacheMap["onDebugBreak"] # 0
    /\ cacheMap["taskCompleted"] = 0
    /\ \E k \in DOMAIN ops :
          /\ ops[k].kind = "playAudioCues"
          /\ Len(ops[k].calls) = 1
          /\ calls[ops[k].calls[1]].sound = "break.mp3"
          /\ calls[ops[k].calls[1]].started

\* C9: playAudioCue(cue, allowManyInParallel) leaves the registry and the
\* playbacks as they are when the cue is disabled, and changes them as
\* playSound(cue.sound, allowManyInParallel) does when it is enabled.
C9_PlayAudioCueDelegates ==
    [][\A cue \in Cues, allow \in BOOLEAN :
        PlayAudioCue(cue, allow) =>
            IF EnabledNow(cue)
            THEN LET r == PlaySoundSync(playingSounds, calls, CueSound(cue), allow, 0)
                 IN  /\ playingSounds' = r.registry
                     /\ Len(calls') = Len(r.calls)
                     /\ \A i \in DOMAIN calls' :
                            CallCore(calls'[i]) = CallCore(r.calls[i])
            ELSE UNCHANGED <<playingSounds, calls>>]_vars

\* playAudioCue of an enabled cue has been de-duplicated as a playSound is, and
\* there is a disabled cue beside it
C9_Witness ==
    /\ \E k \in DOMAIN ops :
          /\ ops[k].kind = "playAudioCue"
          /\ Len(ops[k].calls) = 1
          /\ ~calls[ops[k].calls[1]].started
    /\ \E cue \in Cues : ~EnabledNow(cue)

\* C10: every playSound call with allowManyInParallel = true starts a playback,
\* whatever the registry holds, and a step of one playback (its start, its
\* completion, its failure, its timeout) changes no other playback.
C10_ParallelPlaybacksIndependent ==
    /\ [](\A i \in DOMAIN calls : calls[i].allowManyInParallel => calls[i].started)
    /\ [][\A i, j \in DOMAIN calls :
            (i # j /\ calls'[i] # calls[i]) => calls'[j] = calls[j]]_vars

\* two parallel playbacks of one sound: the first failed, the second ran to its end
C10_Witness ==
    /\ Len(calls) >= 2
    /\ calls[1].sound = calls[2].sound
    /\ calls[1].allowManyInParallel
    /\ calls[2].allowManyInParallel
    /\ calls[1].audio = "failed"
    /\ calls[2].audio = "ended"
    /\ calls[2].result = "resolved"

(***************************************************************************)
(* C11..C20                                                                *)
(***************************************************************************)
\* clamp(v, 0, 100) as the specification words it
Clamp(v, lo, hi) == IF v < lo THEN lo ELSE IF v > hi THEN hi ELSE v

\* C11: the volume a playSound call gives its playback is clamp(v, 0, 100) / 100
\* for a configured number v (150 gives 100, -5 gives 0, a value in 0..100 is
\* kept) and 50 / 100 for a missing or non-numeric value, and the percentage
\* is within 0..100.
C11_VolumeClamped ==
    [][\A sound \in Sounds, allow \in BOOLEAN :
        (PlaySound(sound, allow) /\ calls'[Len(calls')].started) =>
            LET v == configVolume
                applied == calls'[Len(calls')].volume
            IN  /\ applied.den = 100
                /\ applied.num \in 0..100
                /\ v.type = "number" => applied.num = Clamp(v.value, 0, 100)
                /\ (v.type = "number" /\ v.value = 150) => applied.num = 100
                /\ (v.type = "number" /\ v.value = -5) => applied.num = 0
                /\ (v.type = "number" /\ v.value \in 0..100) => applied.num = v.value
                /\ v.type # "number" => applied.num = 50]_vars

\* a playback started under the volume 150 and one under a string
C11_Witness ==
    /\ Len(calls) = 2
    /\ calls[1].volume = [num |-> 100, den |-> 100]
    /\ calls[2].volume = [num |-> 50, den |-> 100]
    /\ configVolume.type = "string"

\* C12: a change of the setting of a cue D leaves the derivation of every cue
\* C with another setting key as it is: not marked for recomputation, its value
\* and what it has read unchanged.
C12_UnrelatedChangeKeepsDerivation ==
    [][\A D \in Cues :
        ( /\ config'[SettingsKey(D)] # config[SettingsKey(D)]
          /\ \A key \in SettingKeys \ {SettingsKey(D)} : config'[key] = config[key] )
        =>  /\ Len(derivations') = Len(derivations)
            /\ \A d \in DOMAIN derivations :
                  SettingsKey(derivations[d].cue) # SettingsKey(D)
                      => derivations'[d] = derivations[d]]_vars

\* the derivation of break is up to date while that of taskCompleted, which
\* has read its own setting only, waits to be recomputed
C12_Witness ==
    \E c, d \in DOMAIN derivations :
        /\ derivations[c].cue = "break"
        /\ ~derivations[c].dirty
        /\ derivations[d].cue = "taskCompleted"
        /\ derivations[d].dirty
        /\ derivations[d].deps = {SettingsKey("taskCompleted")}

\* C13: whatever changes of the cue's setting, of audioCues.enabled and of the
\* screen reader state came before, a read of isEnabled(C) returns the rule on
\* the values the three inputs have at the read, also when the evaluation
\* before it returned true without reading audioCues.enabled; and a derivation
\* that is not marked for recomputation holds that value.
C13_ReadSeesCurrentInputs ==
    /\ [](lastRead.cue \in Cues =>
            /\ cacheMap[lastRead.cue] # 0
            /\ ~derivations[cacheMap[lastRead.cue]].dirty
            /\ derivations[cacheMap[lastRead.cue]].value = lastRead.value
            /\ lastRead.value =
                  EnablementFormula(config[SettingsKey(lastRead.cue)],
                                    config[ObsoleteKey], screenReaderOptimized))
    /\ [](\A d \in DOMAIN derivations :
            ~derivations[d].dirty => derivations[d].value = EnabledNow(derivations[d].cue))
    /\ [][\A c \in Cues :
            ( /\ cacheMap[c] # 0
              /\ derivations[cacheMap[c]].dirty
              /\ derivations[cacheMap[c]].deps # {}
              /\ ObsoleteKey \notin derivations[cacheMap[c]].deps
              /\ ReadIsEnabled(c) )
            => lastRead' = [cue |-> c, value |-> EnabledNow(c)]]_vars

\* break has been read as enabled by audioCues.enabled = auto under a screen
\* reader, by a derivation that was made before that of taskCompleted, which
\* still holds a value computed from its own setting alone
C13_Witness ==
    /\ lastRead = [cue |-> "break", value |-> TRUE]
    /\ config[SettingsKey("break")] = "off"
    /\ config[ObsoleteKey] = "auto"
    /\ screenReaderOptimized
    /\ cacheMap["break"] = 1
    /\ cacheMap["taskCompleted"] = 2
    /\ ~derivations[2].dirty
    /\ derivations[2].deps = {SettingsKey("taskCompleted")}

\* C14: once the playSound calls of a sound S have all returned and every
\* playback they started has failed with an error or has run to its end, one
\* of them having failed, the entry of S has been removed: S is not in the
\* registry (and so the next playSound(S, false) starts a playback).
C14_FailedPlaybackReleasesEntry ==
    \A s \in Sounds :
        ( /\ \E i \in CallsOf(s) : calls[i].race = "rejected"
          /\ \A i \in CallsOf(s) :
                /\ calls[i].pc = "returned"
                /\ calls[i].started => calls[i].audio \in {"failed", "ended"} )
        => s \notin playingSounds

\* C15: when the playback of a call that has returned through the timeout runs
\* to its end, its sound leaves the registry with the 'ended' event, and a
\* playSound(S, false) made while S is not in the registry starts a playback.
C15_TimedOutEntryReleased ==
    /\ [][\A i \in DOMAIN calls :
            ( /\ calls[i].race = "timeout"
              /\ calls[i].pc = "returned"
              /\ AudioEnded(i) )
            => /\ calls[i].sound \notin playingSounds'
               /\ LET r == PlaySoundSync(playingSounds', calls', calls[i].sound, FALSE, 0)
                   IN  r.calls[Len(r.calls)].started]_vars
    /\ [][\A s \in Sounds :
            (s \notin playingSounds /\ PlaySound(s, FALSE))
                => calls'[Len(calls')].started /\ s \in playingSounds']_vars

\* the first call returned through the timeout, its playback ended later, and
\* the next call for the sound, not in parallel mode, has started a playback
C15_Witness ==
    /\ Len(calls) = 2
    /\ calls[1].race = "timeout"
    /\ calls[1].pc = "returned"
    /\ calls[1].audio = "ended"
    /\ calls[2].sound = calls[1].sound
    /\ ~calls[1].allowManyInParallel
    /\ ~calls[2].allowManyInParallel
    /\ calls[2].started

\* C16: a playSound call that passed the de-duplication check has called
\* audio.remove() once when it has returned, whether audio.play() resolved,
\* rejected or the timeout came first, and not before; a call that returned at
\* the check has created no Audio and removed none.
C16_ResourceReleasedOnce ==
    \A i \in DOMAIN calls :
        /\ (calls[i].started /\ calls[i].pc = "returned")
              => (calls[i].removed = 1 /\ calls[i].race \in {"resolved", "rejected", "timeout"})
        /\ (calls[i].started /\ calls[i].pc = "awaiting") => calls[i].removed = 0
        /\ ~calls[i].started
              => (calls[i].removed = 0 /\ calls[i].audio = "none"
                    /\ calls[i].volume = NoVolume /\ calls[i].pc = "returned")

\* three calls have returned, one on each path
C16_Witness ==
    /\ Len(calls) = 3
    /\ \A i \in 1..3 : calls[i].pc = "returned"
    /\ calls[1].race = "resolved"
    /\ calls[2].race = "rejected"
    /\ calls[3].race = "timeout"

\* the playSound calls of invocation k
CallsOfOp(k) == {ops[k].calls[j] : j \in DOMAIN ops[k].calls}

\* C17: from its first step on, an invocation of playAudioCues has made every
\* one of its playSound calls, each of which waits or has returned as a no-op;
\* it has returned only if all of them have; and it returns.
C17_BatchJoinsAll ==
    /\ [](\A k \in DOMAIN ops :
            ops[k].kind = "playAudioCues" =>
                /\ CallsOfOp(k) = {i \in DOMAIN calls : calls[i].op = k}
                /\ ops[k].pc = "returned" =>
                      \A i \in CallsOfOp(k) :
                          calls[i].pc = "returned" /\ calls[i].result = "resolved")
    /\ [][(Len(ops') = Len(ops) + 1 /\ ops'[Len(ops')].kind = "playAudioCues") =>
                /\ ops'[Len(ops')].pc = "awaiting"
                /\ ops'[Len(ops')].calls =
                      [j \in 1..(Len(calls') - Len(calls)) |-> Len(calls) + j]
                /\ \A i \in (Len(calls) + 1)..Len(calls') :
                      /\ calls'[i].op = Len(ops')
                      /\ calls'[i].started => calls'[i].pc = "awaiting"]_vars
    /\ \A k \in 1..MaxOps :
          (k \in DOMAIN ops /\ ops[k].pc = "awaiting")
              ~> (k \in DOMAIN ops /\ ops[k].pc = "returned")

\* a batch of two sounds has returned: one playback failed, the other never
\* answered and its call returned through the timeout
C17_Witness ==
    \E k \in DOMAIN ops :
        /\ ops[k].kind = "playAudioCues"
        /\ ops[k].pc = "returned"
        /\ Len(ops[k].calls) = 2
        /\ calls[ops[k].calls[1]].race = "rejected"
        /\ calls[ops[k].calls[2]].race = "timeout"
        /\ calls[ops[k].calls[2]].audio = "loading"

\* call i has failed or has been given up by its timer
FailedOrTimedOut(c) == c.race \in {"rejected", "timeout"}

\* C18: in a batch, the failure or the timeout of one playback and the return
\* of its call change no other call, add no call (nothing is tried again) and
\* leave the registry as it is; the playback of a sibling still removes its
\* sound when it ends; the batch has one call for each of its sounds, and it
\* resolves.
C18_BatchSiblingsIsolated ==
    /\ [][\A i \in DOMAIN calls :
            ( /\ calls[i].op # 0
              /\ FailedOrTimedOut(calls'[i])
              /\ \/ calls[i].race = "none"
                 \/ calls[i].pc = "awaiting" /\ calls'[i].pc = "returned" )
            => /\ Len(calls') = Len(calls)
               /\ \A j \in DOMAIN calls : j # i => calls'[j] = calls[j]
               /\ playingSounds' = playingSounds
               /\ ops' = ops]_vars
    /\ [][\A j \in DOMAIN calls :
            (calls[j].audio = "playing" /\ calls'[j].audio = "ended")
                => calls[j].sound \notin playingSounds']_vars
    /\ [](\A k \in DOMAIN ops :
            /\ \A i, j \in CallsOfOp(k) : calls[i].sound = calls[j].sound => i = j
            /\ ops[k].result # "rejected"
            /\ ops[k].pc = "returned" => ops[k].result = "resolved")

\* a batch of two sounds has resolved: the playback of the first failed, that
\* of the second ran to its end and its sound has left the registry
C18_Witness ==
    \E k \in DOMAIN ops :
        /\ ops[k].kind = "playAudioCues"
        /\ ops[k].result = "resolved"
        /\ Len(ops[k].calls) = 2
        /\ calls[ops[k].calls[1]].race = "rejected"
        /\ calls[ops[k].calls[2]].audio = "ended"
        /\ calls[ops[k].calls[2]].sound \notin playingSounds

\* C19: a playSound call has logged an error, once, if and only if it has
\* returned after audio.play() rejected before the timer fired; a call that
\* the timer released has logged nothing, whatever became of its playback.
C19_LoggedIffFailedInTime ==
    \A i \in DOMAIN calls :
        /\ calls[i].logged \in {0, 1}
        /\ calls[i].logged = 1 <=> (calls[i].pc = "returned" /\ calls[i].race = "rejected")
        /\ calls[i].race = "timeout" => calls[i].logged = 0

\* one call was released by its timer and its playback failed afterwards,
\* another has logged the failure of its playback
C19_Witness ==
    /\ \E i \in DOMAIN calls :
          /\ calls[i].race = "timeout"
          /\ calls[i].pc = "returned"
          /\ calls[i].audio = "failed"
          /\ calls[i].logged = 0
    /\ \E i \in DOMAIN calls : calls[i].logged = 1

\* call i has returned through the timeout and its playback has not ended
InTimeoutWindow(i) ==
    /\ calls[i].race = "timeout"
    /\ calls[i].pc = "returned"
    /\ calls[i].audio # "ended"

\* C20: from the return of a playSound(S) call through the timeout until the
\* 'ended' event of its playback, S is in the registry, and a
\* playSound(S, false) made in that time starts no playback.
C20_TimedOutEntryStays ==
    /\ [](\A i \in DOMAIN calls : InTimeoutWindow(i) => calls[i].sound \in playingSounds)
    /\ [][\A i \in DOMAIN calls :
            (InTimeoutWindow(i) /\ PlaySound(calls[i].sound, FALSE))
                => ~calls'[Len(calls')].started]_vars

====
